---- MODULE Spec2Model ----
(***************************************************************************)
(* A model of socceraction.hybrid_vaep.base.HybridVAEP: the constructor,   *)
(* fit (with its three backend helpers), _estimate_probabilities, rate     *)
(* and score.                                                              *)
(*                                                                         *)
(* Data representation                                                     *)
(*   - a Python list is a sequence, a Python dict a function whose DOMAIN  *)
(*     is the key set, an Optional value is None (<<>>) or Some(v) (<<v>>) *)
(*   - a DataFrame is represented by what the code reads of it: its        *)
(*     column set and its row indices                                      *)
(*   - a feature column is the pair <<transformer name, window offset>>    *)
(*   - an exception is the name of its class, "" meaning no exception      *)
(***************************************************************************)
EXTENDS Integers, Sequences, FiniteSets, TLC

VARIABLES
    xfns_result,      \* self.xfns_result
    xfns_standard,    \* self.xfns_standard
    xfns_resultfree,  \* self.xfns_resultfree
    nb_prev_actions,  \* self.nb_prev_actions
    models,           \* self.__models
    installed,        \* the backend libraries whose import succeeded
    last,             \* the last call made on the instance and its outcome
    fits,             \* number of fit calls made so far
    fitted            \* TRUE once some fit call has returned normally

config == <<xfns_result, xfns_standard, xfns_resultfree, nb_prev_actions, installed>>
vars == <<xfns_result, xfns_standard, xfns_resultfree, nb_prev_actions, models,
          installed, last, fits, fitted>>

-----------------------------------------------------------------------------
(* Bounds of the model *)

\* largest window size given to the constructor
MaxPrevActions == 1
\* largest number of rows of a feature matrix
MaxRows == 3
\* largest number of fit calls in one behaviour
MaxFits == 2

-----------------------------------------------------------------------------
(* Python values *)

None == <<>>
Some(v) == <<v>>

\* the dict {**a, **b}: the keys of both, b's value where both have the key
Merge(a, b) == [k \in (DOMAIN a) \cup (DOMAIN b) |-> IF k \in DOMAIN b THEN b[k] ELSE a[k]]

\* the dict d after d[k] = v
Put(d, k, v) == [x \in (DOMAIN d) \cup {k} |-> IF x = k THEN v ELSE d[x]]

\* the Python slice s[lo:hi] of a sequence, lo and hi 0-based and clamped
Slice(s, lo, hi) ==
    LET a == IF lo < 0 THEN 0 ELSE IF lo > Len(s) THEN Len(s) ELSE lo
        b == IF hi < 0 THEN 0 ELSE IF hi > Len(s) THEN Len(s) ELSE hi
    IN  IF a >= b THEN <<>> ELSE [i \in 1..(b - a) |-> s[a + i]]

Range(s) == {s[i] : i \in DOMAIN s}

-----------------------------------------------------------------------------
(* Module-level attributes *)

xfns_default ==
    << "actiontype_onehot", "bodypart_onehot", "time", "startlocation",
       "endlocation", "startpolar", "endpolar", "movement", "team",
       "time_delta", "space_delta", "goalscore" >>

xfns_result_default == << "result_onehot", "actiontype_result_onehot" >>

\* the gradient boosting libraries fit dispatches to
Learners == {"xgboost", "catboost", "lightgbm"}

\* the two feature-set variants, in the order the loops visit them
model_versions == << "standard", "resultfree" >>

\* fs.feature_column_names: one column per transformer and window offset
feature_column_names(fns, nb) ==
    {<<fns[i], a>> : i \in 1..Len(fns), a \in 0..nb}

-----------------------------------------------------------------------------
(* HybridVAEP.__init__ *)

init_models == [col \in {"scores", "concedes"} |-> <<>>]

\* the keys of self.__models in insertion order
model_keys == << "scores", "concedes" >>

init_xfns_result(xr) == IF xr = None THEN xfns_result_default ELSE xr[1]

\* a slip of lines 109-111: the result transformers left out
init_xfns_standard_without_result(xf, res) == IF xf = None THEN xfns_default ELSE xf[1]

init_xfns_standard(xf, res) == IF xf = None THEN xfns_default \o res ELSE xf[1] \o res

init_xfns_resultfree(xf) == IF xf = None THEN xfns_default ELSE xf[1]

-----------------------------------------------------------------------------
(* The backend helpers.  Each returns exc ("ImportError" when the library  *)
(* is absent) and the call it makes on the library: the constructor        *)
(* parameters, the training data and the keyword arguments of model.fit.   *)

xgboost_default_tree_params == [n_estimators |-> "100", max_depth |-> "3"]
xgboost_default_fit_params == [eval_metric |-> "auc", verbose |-> "True"]
catboost_default_tree_params ==
    [eval_metric |-> "BrierScore", loss_function |-> "Logloss", iterations |-> "100"]
catboost_default_fit_params == [cat_features |-> "category columns of X", verbose |-> "True"]
lightgbm_default_tree_params == [n_estimators |-> "100", max_depth |-> "3"]
lightgbm_default_fit_params == [eval_metric |-> "auc", verbose |-> "True"]

\* val_params = dict(early_stopping_rounds=10, eval_set=eval_set).  The value
\* under eval_set stands for the list built from the validation split; the
\* list itself is the eval_set field of the backend call.
val_params(eval_set) ==
    [early_stopping_rounds |-> "10", eval_set |-> "validation split"]

\* if params is None: params = default
or_default(params, default) == IF params = None THEN default ELSE params[1]

\* if eval_set is not None: fit_params = {**fit_params, **val_params}
with_val_params(fit_params, eval_set) ==
    IF eval_set # None THEN Merge(fit_params, val_params(eval_set)) ELSE fit_params

backend_call(lib, X, y, eval_set, tree, fitp) ==
    [ exc  |-> IF lib \in installed THEN "" ELSE "ImportError",
      call |-> [learner |-> lib, X |-> X, y |-> y, eval_set |-> eval_set,
                tree_params |-> tree, fit_params |-> fitp] ]

_fit_xgboost(X, y, eval_set, tree_params, fit_params) ==
    backend_call("xgboost", X, y, eval_set,
                 or_default(tree_params, xgboost_default_tree_params),
                 with_val_params(or_default(fit_params, xgboost_default_fit_params), eval_set))

_fit_catboost(X, y, eval_set, tree_params, fit_params) ==
    backend_call("catboost", X, y, eval_set,
                 or_default(tree_params, catboost_default_tree_params),
                 with_val_params(or_default(fit_params, catboost_default_fit_params), eval_set))

_fit_lightgbm(X, y, eval_set, tree_params, fit_params) ==
    backend_call("lightgbm", X, y, eval_set,
                 or_default(tree_params, lightgbm_default_tree_params),
                 with_val_params(or_default(fit_params, lightgbm_default_fit_params), eval_set))

\* the fitted classifier model.fit returns: what it was trained on, and the
\* identity of the object (the fit call and the sub-model that created it)
fitted_model(call, id) ==
    [learner |-> call.learner, columns |-> call.X.columns, label |-> call.y.label, id |-> id]

-----------------------------------------------------------------------------
(* HybridVAEP.fit *)

\* math.floor(nb_states * (1 - val_size)), val_size the fraction <<num, den>>
nb_train(nb_states, val_size) ==
    (nb_states * (val_size[2] - val_size[1])) \div val_size[2]

\* train_idx = idx[:k]
train_idx_of(idx, nb_states, val_size) == Slice(idx, 0, nb_train(nb_states, val_size))

\* val_idx = idx[(k + 1):]
val_idx_of(idx, nb_states, val_size) ==
    Slice(idx, nb_train(nb_states, val_size) + 1, Len(idx))

\* X.iloc[rows][cols] and y.iloc[rows][col]
frame(rows, cols) == [columns |-> cols, rows |-> rows]
series(rows, col) == [label |-> col, rows |-> rows]

\* the columns of the feature-set variant
cols_standard_of(self_standard, nb) == feature_column_names(self_standard, nb)
cols_resultfree_of(self_resultfree, nb) == feature_column_names(self_resultfree, nb)

\* X_train / X_val of the sub-model: lines 231-236
train_cols(model_version, cols_standard, cols_resultfree) ==
    IF model_version = "standard" THEN cols_standard ELSE cols_resultfree

\* a slip of line 237: the eval set built whatever val_size is
eval_set_always(X_val, y_val_col, val_size) == Some(<<[X |-> X_val, y |-> y_val_col]>>)

\* eval_set = [(X_val, y_val[col])] if val_size > 0 else None
eval_set_of(X_val, y_val_col, val_size) ==
    IF val_size[1] > 0 THEN Some(<<[X |-> X_val, y |-> y_val_col]>>) ELSE None

\* the learner dispatch of lines 238-251
dispatch(learner, X, y, eval_set, tree_params, fit_params) ==
    IF learner = "xgboost" THEN _fit_xgboost(X, y, eval_set, tree_params, fit_params)
    ELSE IF learner = "catboost" THEN _fit_catboost(X, y, eval_set, tree_params, fit_params)
    ELSE IF learner = "lightgbm" THEN _fit_lightgbm(X, y, eval_set, tree_params, fit_params)
    ELSE [exc |-> "ValueError", call |-> None]

\* for col in list(y.columns): for model_version in ["standard", "resultfree"]
sub_models(y) ==
    [i \in 1..(Len(y) * Len(model_versions)) |->
        << y[((i - 1) \div Len(model_versions)) + 1],
           model_versions[((i - 1) % Len(model_versions)) + 1] >>]

\* a slip of line 211: the message names every required column
missing_message_all(cols_standard, X) ==
    [missing_cols |-> cols_standard, text |-> "are not available in the features dataframe"]

\* the message of the ValueError raised for missing columns
missing_message(cols_standard, X) ==
    [missing_cols |-> cols_standard \ X, text |-> "are not available in the features dataframe"]

no_message == [missing_cols |-> {}, text |-> ""]

\* raise ValueError(f'A {learner} learner is not supported')
unsupported_message == [missing_cols |-> {}, text |-> "learner is not supported"]

\* self.__models[col][model_version] = <fitted model>
store_model(m, col, model_version, clf) == [m EXCEPT ![col] = Put(@, model_version, clf)]

\* The training loop from sub-model i on.  m is self.__models, calls the
\* backend calls made so far.  The library is external: its fit may raise,
\* and a.raises is the number of the backend call that does (0: none).  The
\* right-hand side of the assignment is evaluated before self.__models[col]
\* is looked up, so a label that is no key of the mapping raises KeyError
\* after its classifier was trained.
RECURSIVE fit_loop(_, _, _, _, _)
fit_loop(a, steps, i, m, calls) ==
    IF i > Len(steps) THEN [exc |-> "", models |-> m, calls |-> calls]
    ELSE
      LET col == steps[i][1]
          model_version == steps[i][2]
          cols == train_cols(model_version, a.cols_standard, a.cols_resultfree)
          X_train == frame(a.train_idx, cols)
          X_val == frame(a.val_idx, cols)
          eval_set == eval_set_of(X_val, series(a.val_idx, col), a.val_size)
          r == dispatch(a.learner, X_train, series(a.train_idx, col), eval_set,
                        a.tree_params, a.fit_params)
      IN  IF r.exc # "" THEN [exc |-> r.exc, models |-> m, calls |-> calls]
          ELSE IF Len(calls) + 1 = a.raises
            THEN [exc |-> "BackendError", models |-> m, calls |-> Append(calls, r.call)]
          ELSE IF col \notin DOMAIN m
            THEN [exc |-> "KeyError", models |-> m, calls |-> Append(calls, r.call)]
          ELSE fit_loop(a, steps, i + 1,
                        store_model(m, col, model_version, fitted_model(r.call, <<a.fit_no, i>>)),
                        Append(calls, r.call))

\* fit(X, y, learner, val_size, tree_params, fit_params) on an X of nb_states
\* rows, np.random.permutation drawing idx
fit(X, y, learner, val_size, tree_params, fit_params, nb_states, idx, raises) ==
    LET train_idx == train_idx_of(idx, nb_states, val_size)
        val_idx == val_idx_of(idx, nb_states, val_size)
        cols_standard == cols_standard_of(xfns_standard, nb_prev_actions)
        cols_resultfree == cols_resultfree_of(xfns_resultfree, nb_prev_actions)
        a == [train_idx |-> train_idx, val_idx |-> val_idx, val_size |-> val_size,
              cols_standard |-> cols_standard, cols_resultfree |-> cols_resultfree,
              learner |-> learner, tree_params |-> tree_params, fit_params |-> fit_params,
              raises |-> raises, fit_no |-> fits + 1]
        r == IF ~(cols_standard \subseteq X)
               THEN [exc |-> "ValueError", models |-> models, calls |-> <<>>]
               ELSE fit_loop(a, sub_models(y), 1, models, <<>>)
    IN  [ exc |-> r.exc,
          message |-> IF ~(cols_standard \subseteq X) THEN missing_message(cols_standard, X)
                      ELSE IF r.exc = "ValueError" THEN unsupported_message
                      ELSE no_message,
          models |-> r.models, calls |-> r.calls,
          train_idx |-> train_idx, val_idx |-> val_idx ]

-----------------------------------------------------------------------------
(* HybridVAEP._estimate_probabilities, rate and score *)

\* `not self.__models`: a dict is falsy when it has no key
is_empty_dict(d) == DOMAIN d = {}

\* model.predict_proba(X[cols]): the classifier queried, the slot it was
\* read from and the columns it was queried on
predict_proba(col, model_version, clf, cols) ==
    [slot |-> <<col, model_version>>, model |-> clf, columns |-> cols]

\* a slip of lines 334-337: the two column sets exchanged
query_cols_swapped(model_version, cols_standard, cols_resultfree) ==
    IF model_version = "standard" THEN cols_resultfree ELSE cols_standard

\* the columns a sub-model is queried on: lines 334-337
query_cols(model_version, cols_standard, cols_resultfree) ==
    IF model_version = "standard" THEN cols_standard ELSE cols_resultfree

\* the Y_hat column a sub-model's probabilities are written to
y_hat_column(col, model_version) == col \o "-" \o model_version

\* for col in self.__models: for model_version in ["standard", "resultfree"]
stored_sub_models ==
    [i \in 1..(Len(model_keys) * Len(model_versions)) |->
        << model_keys[((i - 1) \div Len(model_versions)) + 1],
           model_versions[((i - 1) % Len(model_versions)) + 1] >>]

RECURSIVE estimate_loop(_, _, _, _, _)
estimate_loop(m, cols_standard, cols_resultfree, i, Y_hat) ==
    IF i > Len(stored_sub_models) THEN [exc |-> "", Y_hat |-> Y_hat]
    ELSE
      LET col == stored_sub_models[i][1]
          model_version == stored_sub_models[i][2]
          cols == query_cols(model_version, cols_standard, cols_resultfree)
      IN  IF model_version \notin DOMAIN m[col] THEN [exc |-> "KeyError", Y_hat |-> Y_hat]
          ELSE estimate_loop(m, cols_standard, cols_resultfree, i + 1,
                   Put(Y_hat, y_hat_column(col, model_version),
                       predict_proba(col, model_version, m[col][model_version], cols)))

_estimate_probabilities(X) ==
    LET cols_standard == cols_standard_of(xfns_standard, nb_prev_actions)
        cols_resultfree == cols_resultfree_of(xfns_resultfree, nb_prev_actions)
        r == estimate_loop(models, cols_standard, cols_resultfree, 1, <<>>)
    IN  IF ~(cols_standard \subseteq X)
          THEN [exc |-> "ValueError", message |-> missing_message(cols_standard, X),
                Y_hat |-> <<>>]
          ELSE [exc |-> r.exc, message |-> no_message, Y_hat |-> r.Y_hat]

\* compute_features: the columns the standard transformers produce
compute_features == feature_column_names(xfns_standard, nb_prev_actions)

\* the four probability arguments of self._vaep.value, by parameter name
value_arguments(y_hat) ==
    [ p_scores_standard |-> y_hat["scores-standard"],
      p_scores_resultfree |-> y_hat["scores-resultfree"],
      p_concedes_standard |-> y_hat["concedes-standard"],
      p_concedes_resultfree |-> y_hat["concedes-resultfree"] ]

rate_columns ==
    {"scores-standard", "scores-resultfree", "concedes-standard", "concedes-resultfree"}

\* rate(game, game_actions, game_states), the action table being one the
\* schema adapter (add_names) resolves
rate(game_states) ==
    LET X == IF game_states = None THEN compute_features ELSE game_states[1]
        e == _estimate_probabilities(X)
    IN  IF is_empty_dict(models)
          THEN [exc |-> "NotFittedError", message |-> no_message, X |-> X,
                Y_hat |-> <<>>, out |-> <<>>]
        ELSE IF e.exc # ""
          THEN [exc |-> e.exc, message |-> e.message, X |-> X, Y_hat |-> e.Y_hat, out |-> <<>>]
        ELSE IF ~(rate_columns \subseteq DOMAIN e.Y_hat)
          THEN [exc |-> "KeyError", message |-> no_message, X |-> X,
                Y_hat |-> e.Y_hat, out |-> <<>>]
        ELSE [exc |-> "", message |-> no_message, X |-> X, Y_hat |-> e.Y_hat,
              out |-> value_arguments(e.Y_hat)]

\* scores[col] = {brier: brier_score_loss(y[col], y_hat[col]), auroc: roc_auc_score(...)}
\* for the keys of self.__models from the i-th on
RECURSIVE score_loop(_, _, _, _)
score_loop(y, y_hat, i, scores) ==
    IF i > Len(model_keys) THEN [exc |-> "", out |-> scores]
    ELSE
      LET col == model_keys[i]
      IN  IF col \notin Range(y) \/ col \notin DOMAIN y_hat
            THEN [exc |-> "KeyError", out |-> <<>>]
          ELSE score_loop(y, y_hat, i + 1,
                   Put(scores, col,
                       [brier |-> [truth |-> col, predicted |-> y_hat[col]],
                        auroc |-> [truth |-> col, predicted |-> y_hat[col]]]))

score(X, y) ==
    LET e == _estimate_probabilities(X)
        r == score_loop(y, e.Y_hat, 1, <<>>)
    IN  IF is_empty_dict(models)
          THEN [exc |-> "NotFittedError", message |-> no_message, Y_hat |-> <<>>, out |-> <<>>]
        ELSE IF e.exc # ""
          THEN [exc |-> e.exc, message |-> e.message, Y_hat |-> e.Y_hat, out |-> <<>>]
        ELSE [exc |-> r.exc, message |-> no_message, Y_hat |-> e.Y_hat, out |-> r.out]

-----------------------------------------------------------------------------
(* The state machine: the constructor gives the initial state, and each    *)
(* public method called on the instance is one action.                     *)

no_call ==
    [ op |-> "init", exc |-> "", message |-> no_message, X |-> {}, y |-> <<>>,
      learner |-> "", val_size |-> <<0, 1>>, tree_params |-> None, fit_params |-> None,
      nb_states |-> 0, idx |-> <<>>, train_idx |-> <<>>, val_idx |-> <<>>,
      calls |-> <<>>, Y_hat |-> <<>>, out |-> <<>> ]

\* HybridVAEP(xfns, xfns_result, nb_prev_actions) in an environment where the
\* libraries of `libs` are importable
Construct(xfns, xr, nb, libs) ==
    /\ xfns_result = init_xfns_result(xr)
    /\ xfns_standard = init_xfns_standard(xfns, init_xfns_result(xr))
    /\ xfns_resultfree = init_xfns_resultfree(xfns)
    /\ nb_prev_actions = nb
    /\ models = init_models
    /\ installed = libs
    /\ last = no_call
    /\ fits = 0
    /\ fitted = FALSE

Fit(X, y, learner, val_size, tree_params, fit_params, nb_states, idx, raises) ==
    /\ fits < MaxFits
    /\ \E r \in {fit(X, y, learner, val_size, tree_params, fit_params, nb_states, idx, raises)} :
           /\ models' = r.models
           /\ last' = [no_call EXCEPT !.op = "fit", !.exc = r.exc, !.message = r.message,
                          !.X = X, !.y = y, !.learner = learner, !.val_size = val_size,
                          !.tree_params = tree_params, !.fit_params = fit_params,
                          !.nb_states = nb_states, !.idx = idx,
                          !.train_idx = r.train_idx, !.val_idx = r.val_idx,
                          !.calls = r.calls]
           /\ fitted' = (fitted \/ r.exc = "")
    /\ fits' = fits + 1
    /\ UNCHANGED config

Rate(game_states) ==
    /\ \E r \in {rate(game_states)} :
           last' = [no_call EXCEPT !.op = "rate", !.exc = r.exc, !.message = r.message,
                       !.X = r.X, !.Y_hat = r.Y_hat, !.out = r.out]
    /\ UNCHANGED <<models, fits, fitted, config>>

Score(X, y) ==
    /\ \E r \in {score(X, y)} :
           last' = [no_call EXCEPT !.op = "score", !.exc = r.exc, !.message = r.message,
                       !.X = X, !.y = y, !.Y_hat = r.Y_hat, !.out = r.out]
    /\ UNCHANGED <<models, fits, fitted, config>>

-----------------------------------------------------------------------------
(* Inputs *)

\* np.random.permutation(n): any ordering of 0 .. n-1
permutation(n) ==
    {s \in [1..n -> 0..(n - 1)] : \A i, j \in 1..n : i # j => s[i] # s[j]}

\* range(n), the ordering a fixed seed may give
Identity(n) == [i \in 1..n |-> i - 1]

AllTransformers == xfns_default \o xfns_result_default

\* the columns a feature matrix may lack
ProbeColumns == {<<"startlocation", 0>>, <<"result_onehot", 0>>}

\* feature matrices: every column of every transformer, less some probe columns
XChoices == {feature_column_names(AllTransformers, MaxPrevActions) \ M : M \in SUBSET ProbeColumns}

YChoices ==
    { <<"scores", "concedes">>, <<"concedes", "scores">>, <<"scores">>,
      <<"scores", "concedes", "goal">> }

\* val_size as <<numerator, denominator>>: fractions a binary float holds exactly
ValSizeChoices == { <<0, 1>>, <<1, 4>>, <<1, 2>>, <<3, 4>>, <<1, 1>> }

XfnsChoices ==
    { None, Some(<<>>), Some(<<"startlocation", "endlocation">>),
      Some(<<"startlocation", "result_onehot">>) }

XfnsResultChoices == { None, Some(<<>>), Some(<<"result_onehot">>) }

TreeParamsChoices == { None, Some([n_estimators |-> "50"]) }

FitParamsChoices ==
    { None, Some([verbose |-> "False"]), Some([early_stopping_rounds |-> "5"]),
      Some([eval_set |-> "caller's eval set", eval_metric |-> "logloss"]) }

\* the number of (label x feature-set) sub-models of a full fit
NbSubModels == Len(model_keys) * Len(model_versions)

-----------------------------------------------------------------------------
(* Specification of the life cycle: construction, then any calls *)

Init ==
    \E xfns \in {None, Some(<<"startlocation", "endlocation">>)},
       xr \in {None, Some(<<>>)},
       nb \in {MaxPrevActions} :
        Construct(xfns, xr, nb, Learners)

FitCall ==
    \E X \in XChoices, y \in YChoices, raises \in 0..NbSubModels :
        Fit(X, y, "xgboost", <<1, 4>>, None, None, MaxRows, Identity(MaxRows), raises)

RateCall == \E gs \in {None} \cup {Some(X) : X \in XChoices} : Rate(gs)

ScoreCall == \E X \in XChoices, y \in {<<"scores", "concedes">>, <<"scores">>} : Score(X, y)

Next == FitCall \/ RateCall \/ ScoreCall

Spec == Init /\ [][Next]_vars

-----------------------------------------------------------------------------
(* Specification of the constructor's configurations *)

InitConfig ==
    \E xfns \in XfnsChoices, xr \in XfnsResultChoices, nb \in 0..MaxPrevActions :
        Construct(xfns, xr, nb, Learners)

FitFull ==
    \E y \in YChoices, raises \in 0..NbSubModels :
        Fit(feature_column_names(AllTransformers, MaxPrevActions), y, "xgboost", <<1, 4>>,
            None, None, MaxRows, Identity(MaxRows), raises)

NextConfig == FitFull \/ Rate(None)

SpecConfig == InitConfig /\ [][NextConfig]_vars

-----------------------------------------------------------------------------
(* Specification of the train/validation split *)

FitSplit ==
    \E n \in 0..MaxRows, val_size \in ValSizeChoices,
       y \in {<<"scores", "concedes">>, <<"concedes", "scores">>} :
        \E idx \in permutation(n) :
            Fit(feature_column_names(AllTransformers, MaxPrevActions),
                y, "xgboost", val_size, None, None, n, idx, 0)

NextSplit == FitSplit

SpecSplit == Construct(None, None, MaxPrevActions, Learners) /\ [][NextSplit]_vars

-----------------------------------------------------------------------------
(* Specification of the backends and their parameters *)

InitParams ==
    \E libs \in {Learners, {"xgboost", "lightgbm"}} :
        Construct(None, None, MaxPrevActions, libs)

FitParams ==
    \E y \in {<<"scores", "concedes">>, <<"scores">>},
       learner \in Learners \cup {"sklearn"},
       val_size \in {<<0, 1>>, <<1, 4>>, <<1, 1>>},
       tree_params \in TreeParamsChoices, fit_params \in FitParamsChoices :
        Fit(feature_column_names(AllTransformers, MaxPrevActions), y, learner, val_size,
            tree_params, fit_params, MaxRows, Identity(MaxRows), 0)

NextParams == FitParams

SpecParams == InitParams /\ [][NextParams]_vars

-----------------------------------------------------------------------------
(* Properties *)

CS == feature_column_names(xfns_standard, nb_prev_actions)
CR == feature_column_names(xfns_resultfree, nb_prev_actions)

BothLabels == {"scores", "concedes"}

\* every (label x feature-set) slot of the mapping m holds a classifier
AllFour(m) ==
    \A col \in BothLabels : col \in DOMAIN m /\ DOMAIN m[col] = Range(model_versions)

\* C1: while no fit has completed, every rate and every score call fails with
\* NotFittedError; once a fit has completed, rate does not fail with it.
C1_NotFitted ==
    /\ (~fitted /\ last.op \in {"rate", "score"}) => last.exc = "NotFittedError"
    /\ (fitted /\ last.op = "rate") => last.exc # "NotFittedError"

\* C2: a fit call that fails while training one of its sub-models leaves no
\* classifier of that call in the model mapping.
C2_AllOrNothing ==
    (last.op = "fit" /\ last.exc # "" /\ last.calls # <<>>) =>
        \A col \in DOMAIN models : \A v \in DOMAIN models[col] : models[col][v].id[1] # fits

\* C3: whenever fit returns normally, all four (label x feature-set) slots
\* hold a classifier.
C3_FourOnSuccess ==
    (last.op = "fit" /\ last.exc = "") => AllFour(models)

\* C4: after a successful fit, score on an X with every standard column and
\* a y with both label columns returns a Brier score and an AUROC per label.
C4_ScoreReturns ==
    (fitted /\ AllFour(models) /\ last.op = "score" /\ CS \subseteq last.X
        /\ BothLabels \subseteq Range(last.y)) =>
        /\ last.exc = ""
        /\ DOMAIN last.out = BothLabels
        /\ \A col \in DOMAIN last.out : DOMAIN last.out[col] = {"brier", "auroc"}

\* the slot and the columns each probability argument of the value formula
\* is meant to come from
Routing ==
    [ p_scores_standard |-> [slot |-> <<"scores", "standard">>, columns |-> CS],
      p_scores_resultfree |-> [slot |-> <<"scores", "resultfree">>, columns |-> CR],
      p_concedes_standard |-> [slot |-> <<"concedes", "standard">>, columns |-> CS],
      p_concedes_resultfree |-> [slot |-> <<"concedes", "resultfree">>, columns |-> CR] ]

\* C5: when rate reaches the value formula, each of its four probability
\* arguments is the output of the classifier stored in its own slot, that
\* classifier was trained on the slot's label, and it is queried on the
\* columns of its own feature-set variant, which are the columns it was
\* trained on.
C5_Routing ==
    (last.op = "rate" /\ last.exc = "") =>
        /\ DOMAIN last.out = DOMAIN Routing
        /\ \A arg \in DOMAIN Routing :
            LET o == last.out[arg]
                want == Routing[arg]
            IN  /\ o.slot = want.slot
                /\ o.model = models[want.slot[1]][want.slot[2]]
                /\ o.model.label = want.slot[1]
                /\ o.columns = want.columns
                /\ o.columns = o.model.columns

C5_Witness ==
    /\ last.op = "rate" /\ last.exc = "" /\ fitted
    /\ CS # CR
    /\ last.out["p_scores_standard"] # last.out["p_scores_resultfree"]

C7_StrictSuperset == CR \subseteq CS /\ CR # CS

\* C7 amended: the standard columns are a superset of the result-free
\* columns, strict exactly when xfns_result yields a column xfns does not.
C7_Superset ==
    /\ CR \subseteq CS
    /\ (CR # CS) <=> ~(feature_column_names(xfns_result, nb_prev_actions) \subseteq CR)

C7_Witness ==
    /\ xfns_resultfree = <<"startlocation", "endlocation">>
    /\ xfns_result = <<"result_onehot">>
    /\ CR \subseteq CS /\ CR # CS

\* the fit-time defaults of each backend
DefaultFitParams(learner) ==
    IF learner = "catboost" THEN catboost_default_fit_params
    ELSE IF learner = "lightgbm" THEN lightgbm_default_fit_params
    ELSE xgboost_default_fit_params

CallsOfLastFit == {last.calls[i] : i \in DOMAIN last.calls}

ValSizeIsZero == last.val_size[1] = 0

C9_Partition ==
    last.op = "fit" =>
        LET n == last.nb_states
            k == (n * (last.val_size[2] - last.val_size[1])) \div last.val_size[2]
        IN  /\ last.train_idx = SubSeq(last.idx, 1, k)
            /\ last.val_idx = SubSeq(last.idx, k + 1, n)
            /\ Range(last.train_idx) \cup Range(last.val_idx) = 0..(n - 1)
            /\ Len(last.train_idx) + Len(last.val_idx) = n

\* C10: each backend call receives the backend's default fit parameters
\* merged with the caller's, the caller's values taking precedence.
C10_MergedFitParams ==
    last.op = "fit" =>
        \A c \in CallsOfLastFit :
            LET given == IF last.fit_params = None THEN <<>> ELSE last.fit_params[1]
                default == DefaultFitParams(c.learner)
            IN  /\ \A k \in DOMAIN given :
                    k \in DOMAIN c.fit_params /\ c.fit_params[k] = given[k]
                /\ \A k \in (DOMAIN default) \ (DOMAIN given) :
                    k \in DOMAIN c.fit_params /\ c.fit_params[k] = default[k]

====
